---- MODULE Spec2Model ----
(***************************************************************************)
(* The potential-update engine OT of online_sinkhorn/potentials.py.        *)
(*                                                                         *)
(* Samples are one-dimensional points on the lattice sqrt(ln 2) * Z, so a  *)
(* squared distance is d * ln 2 for an integer d and exp(-distance) is the *)
(* dyadic rational 2^(-d).  A log-domain number v (an entry of p_, q_, f,  *)
(* g) is held as the extended rational exp(v) = <<num, den>>:              *)
(*     -inf is <<0, 1>>, 0.0 is <<1, 1>>, +inf is <<1, 0>>, nan is <<0,0>>. *)
(* With this reading logsumexp is a sum, v - log(n) a division by n,       *)
(* v + log(s) a product, -v a reciprocal and logaddexp a sum, and all of   *)
(* the engine's arithmetic is exact.                                       *)
(*                                                                         *)
(* The engine is the one built by OT(max_size, dimension=1) with the       *)
(* constructor's defaults averaging=False and no_memory=False.             *)
(* Python arrays are 0-based functions; batches are 1-based sequences, so  *)
(* x[k+1] here is x[k] there.                                              *)
(***************************************************************************)
EXTENDS Integers, Sequences, FiniteSets, TLC

VARIABLES x_, y_, p_, q_, distance_, x_cursor_, y_cursor_, computations_,
          n_updates_, last, calls, completed, loop

vars == <<x_, y_, p_, q_, distance_, x_cursor_, y_cursor_, computations_,
          n_updates_, last, calls, completed, loop>>

(* ------------------------------ bounds -------------------------------- *)

\* Capacity of each sample buffer (the constructor's max_size).
max_size == 2

\* Number of calls a caller makes on the engine.
MaxCalls == 2

\* Number of update calls made before a driver loop is started.
MaxSetup == 1

\* Largest max_updates given to a driver loop.
MaxUpdates == 2

\* Coordinates of the sample points.
Points == {0, 1}

\* A batch may be one point longer than the capacity.
MaxBatch == max_size + 1

Rows == 0 .. (max_size - 1)

Min(a, b) == IF a < b THEN a ELSE b

Max(a, b) == IF a < b THEN b ELSE a

(* ------------------- log-domain numbers, held as exp ------------------- *)

NegInf == <<0, 1>>

Zero == <<1, 1>>

PosInf == <<1, 0>>

NaN == <<0, 0>>

RECURSIVE Gcd(_, _)
Gcd(a, b) == IF b = 0 THEN a ELSE Gcd(b, a % b)

\* The extended rational n / d in lowest terms (n, d >= 0).
Rat(n, d) ==
    IF d = 0 THEN (IF n = 0 THEN NaN ELSE PosInf)
    ELSE IF n = 0 THEN NegInf
    ELSE LET g == Gcd(n, d) IN <<n \div g, d \div g>>

\* a + b of two log-domain numbers: the product of their exponentials.
\* inf + (-inf) is nan.
Plus(a, b) == Rat(a[1] * b[1], a[2] * b[2])

\* -a.
Neg(a) == <<a[2], a[1]>>

\* np.logaddexp(a, b), and the pairwise step of a logsumexp.
logaddexp(a, b) ==
    IF a = NaN \/ b = NaN THEN NaN
    ELSE IF a = PosInf \/ b = PosInf THEN PosInf
    ELSE Rat(a[1] * b[2] + b[1] * a[2], a[2] * b[2])

\* np.log(n) of an integer: log(0) is -inf, the log of a negative is nan.
Log(n) == IF n < 0 THEN NaN ELSE Rat(n, 1)

RECURSIVE Pow2(_)
Pow2(d) == IF d = 0 THEN 1 ELSE 2 * Pow2(d - 1)

\* v - d for a squared distance d (in units of ln 2).
MinusDistance(v, d) == Plus(v, <<1, Pow2(d)>>)

\* scipy.special.logsumexp over a sequence of log-domain numbers (non-empty:
\* the callers raise ValueError before reducing over an empty axis).
RECURSIVE logsumexp(_)
logsumexp(a) ==
    IF Len(a) = 1 THEN a[1] ELSE logaddexp(a[1], logsumexp(Tail(a)))

(* ------------------------------ batches ------------------------------- *)

\* An optional value (a batch argument, a computed f or g): None, or an array.
None == [some |-> FALSE, val |-> <<>>]

Some(v) == [some |-> TRUE, val |-> v]

\* The batches a caller supplies: every array of up to max_size points, and
\* for each point the array of MaxBatch points that starts there and alternates.
Arrays ==
    UNION {[1 .. n -> Points] : n \in 0 .. max_size}
    \cup {[k \in 1 .. MaxBatch |-> (a + k - 1) % 2] : a \in Points}

Batches == {None} \cup {Some(a) : a \in Arrays}

\* The step sizes a call may be given, as rationals: 1.0 and 0.5.
StepOne == <<1, 1>>

StepSizes == {StepOne, <<1, 2>>}

(* --------------------------- numpy slicing ---------------------------- *)

\* Number of rows of buf[a:b] for a buffer of max_size rows (0 <= a).
SliceLen(a, b) == Max(0, Min(b, max_size) - Min(a, max_size))

\* x[:n] forgotten: the whole batch is kept.
Prefix_unclipped(x, n) == x

\* x[:n] of a batch: a negative n counts from the end.
Prefix(x, n) ==
    LET k == IF n >= 0 THEN Min(n, Len(x)) ELSE Max(Len(x) + n, 0)
    IN  SubSeq(x, 1, k)

\* buf[:c] as a sequence.
Head_(buf, c) == [k \in 1 .. Min(c, max_size) |-> buf[k - 1]]

\* An assignment buf[a:b] = v broadcasts: v has as many rows as the slice, or one.
Broadcasts(k, r) == k = r \/ k = 1

\* Row i of the slice takes v[i], or v[1] when v is broadcast.
Pick(v, i) == IF Len(v) = 1 THEN v[1] ELSE v[i]

(* -------------------------- Distance Oracle --------------------------- *)

\* compute_distance(x, y)[i][j] for two arrays of points.
compute_distance(x, y) ==
    [i \in 1 .. Len(x) |->
        [j \in 1 .. Len(y) |-> x[i] * x[i] + y[j] * y[j] - 2 * x[i] * y[j]]]

(* ------------------------------- state -------------------------------- *)

\* A buffer row np.empty left unwritten.
Uninit == -1

\* The engine as one record, so that a method is a function of it.
self ==
    [x_ |-> x_, y_ |-> y_, p_ |-> p_, q_ |-> q_, distance_ |-> distance_,
     x_cursor_ |-> x_cursor_, y_cursor_ |-> y_cursor_,
     computations_ |-> computations_, n_updates_ |-> n_updates_]

\* OT.__init__.
__init__ ==
    [x_ |-> [i \in Rows |-> Uninit], y_ |-> [i \in Rows |-> Uninit],
     p_ |-> [i \in Rows |-> NegInf], q_ |-> [i \in Rows |-> NegInf],
     distance_ |-> [i \in Rows |-> [j \in Rows |-> 0]],
     x_cursor_ |-> 0, y_cursor_ |-> 0, computations_ |-> 0, n_updates_ |-> 0]

\* What a call leaves behind: the engine, the exception raised ("" for a
\* normal return) and the potentials it computed or returned.
Result(s, err, f, g) == [st |-> s, err |-> err, f |-> f, g |-> g]

\* is_full with the comparison one short of the capacity.
is_full_off_by_one(s) == s.x_cursor_ = max_size - 1 \/ s.y_cursor_ = max_size - 1

\* is_full.
is_full(s) == s.x_cursor_ = max_size \/ s.y_cursor_ = max_size

(* --------------------------- dual updates ----------------------------- *)

Zeros(n) == [k \in 1 .. n |-> Zero]

\* - logsumexp(q[:, :cols] - distance, axis=1): one entry per row of distance.
\* np.amax raises on an axis of length 0, so cols >= 1 here.
RowPotential(q, distance, cols) ==
    [i \in 1 .. Len(distance) |->
        Neg(logsumexp([j \in 1 .. cols |-> MinusDistance(q[j - 1], distance[i][j])]))]

\* - logsumexp(p[:rows, :] - distance, axis=0): one entry per column of distance.
ColPotential(p, distance, rows, cols) ==
    [j \in 1 .. cols |->
        Neg(logsumexp([i \in 1 .. rows |-> MinusDistance(p[i - 1], distance[i][j])]))]

\* distance_[:r, :c] as a sequence of rows.
Block(D, r, c) ==
    [i \in 1 .. Min(r, max_size) |-> [j \in 1 .. Min(c, max_size) |-> D[i - 1][j - 1]]]

\* v - np.log(n), entrywise.
MinusLog(v, n) == [k \in 1 .. Len(v) |-> Plus(v[k], Neg(Log(n)))]

\* np.log(1 - step_size).
LogOneMinus(step_size) == Rat(step_size[2] - step_size[1], step_size[2])

(* --------------------------- evaluate_potential ------------------------ *)

\* Lines 249-256: f at the query points x, against y_[:y_cursor_] and q_.
evaluate_f(s, x) ==
    IF ~x.some THEN None
    ELSE IF s.y_cursor_ = 0 THEN Some(Zeros(Len(x.val)))
    ELSE Some(RowPotential(s.q_, compute_distance(x.val, Head_(s.y_, s.y_cursor_)),
                           Min(s.y_cursor_, max_size)))

\* Lines 257-264: g at the query points y, against x_[:x_cursor_] and p_.
evaluate_g(s, y) ==
    IF ~y.some THEN None
    ELSE IF s.x_cursor_ = 0 THEN Some(Zeros(Len(y.val)))
    ELSE Some(ColPotential(s.p_, compute_distance(Head_(s.x_, s.x_cursor_), y.val),
                           Min(s.x_cursor_, max_size), Len(y.val)))

\* An evaluate_potential that books its distance evaluations.
evaluate_potential_counting(s, x, y) ==
    LET f == evaluate_f(s, x)
        g == evaluate_g(s, y)
    IN  Result([s EXCEPT !.computations_ = @ + 1],
               IF f.some \/ g.some THEN "" ELSE "ValueError", f, g)

evaluate_potential(s, x, y) ==
    LET f == evaluate_f(s, x)
        g == evaluate_g(s, y)
    IN  Result(s, IF f.some \/ g.some THEN "" ELSE "ValueError", f, g)

(* ------------------------------ partial_fit --------------------------- *)

\* What one side of partial_fit hands on: the engine so far, the exception,
\* the new potential (None when nothing is absorbed), the new cursor, the
\* number n absorbed and the clipped batch.
Side(s, err, f, cursor, n, batch) ==
    [st |-> s, err |-> err, f |-> f, cursor |-> cursor, n |-> n, batch |-> batch]

\* The check for a call that gives neither side, left out.
neither_unchecked(x, y) == FALSE

\* Lines 70 and 97: the call gives neither side.
neither(x, y) == ~x.some /\ ~y.some

\* Lines 100-127: clip x, absorb it, fill its rows of the cache, compute f.
partial_fit_x(s, x, full_update) ==
    IF ~x.some THEN Side(s, "", None, s.x_cursor_, 0, <<>>)
    ELSE
    LET new_x_cursor == Min(s.x_cursor_ + Len(x.val), max_size)
        n == new_x_cursor - s.x_cursor_
        xt == Prefix(x.val, n)
        base == Min(s.x_cursor_, max_size)
        r == SliceLen(s.x_cursor_, new_x_cursor)
        cy == Min(s.y_cursor_, max_size)
        new == compute_distance(xt, Head_(s.y_, s.y_cursor_))
        s1 == [s EXCEPT
                 !.x_ = [i \in Rows |->
                           IF i >= base /\ i < base + r
                           THEN Pick(xt, i - base + 1) ELSE @[i]],
                 !.computations_ = @ + s.y_cursor_ * n,
                 !.distance_ = [i \in Rows |-> [j \in Rows |->
                           IF i >= base /\ i < base + r /\ j < cy
                           THEN Pick(new, i - base + 1)[j + 1] ELSE @[i][j]]]]
        distance == IF full_update THEN Block(s1.distance_, new_x_cursor, cy) ELSE new
    IN  IF Len(xt) = 0 THEN Side(s, "", None, new_x_cursor, n, xt)
        ELSE IF ~Broadcasts(Len(xt), r) THEN Side(s, "ValueError", None, new_x_cursor, n, xt)
        ELSE IF s.y_cursor_ = 0 THEN
            IF full_update THEN Side(s1, "", Some(Zeros(new_x_cursor)), new_x_cursor, n, xt)
            ELSE IF n < 0 THEN Side(s1, "ValueError", None, new_x_cursor, n, xt)
            ELSE Side(s1, "", Some(Zeros(n)), new_x_cursor, n, xt)
        ELSE Side([s1 EXCEPT !.computations_ = @ + Len(distance) * cy], "",
                  Some(RowPotential(s1.q_, distance, cy)), new_x_cursor, n, xt)

\* Lines 128-155: the same for y, against x_[:x_cursor_] as it was on entry.
partial_fit_y(s, y, full_update) ==
    IF ~y.some THEN Side(s, "", None, s.y_cursor_, 0, <<>>)
    ELSE
    LET new_y_cursor == Min(s.y_cursor_ + Len(y.val), max_size)
        m == new_y_cursor - s.y_cursor_
        yt == Prefix(y.val, m)
        base == Min(s.y_cursor_, max_size)
        r == SliceLen(s.y_cursor_, new_y_cursor)
        cx == Min(s.x_cursor_, max_size)
        new == compute_distance(Head_(s.x_, s.x_cursor_), yt)
        s1 == [s EXCEPT
                 !.y_ = [j \in Rows |->
                           IF j >= base /\ j < base + r
                           THEN Pick(yt, j - base + 1) ELSE @[j]],
                 !.computations_ = @ + s.x_cursor_ * m,
                 !.distance_ = [i \in Rows |-> [j \in Rows |->
                           IF i < cx /\ j >= base /\ j < base + r
                           THEN Pick(new[i + 1], j - base + 1) ELSE @[i][j]]]]
        distance == IF full_update THEN Block(s1.distance_, s.x_cursor_, new_y_cursor) ELSE new
        cols == IF full_update THEN new_y_cursor ELSE Len(yt)
    IN  IF Len(yt) = 0 THEN Side(s, "", None, new_y_cursor, m, yt)
        ELSE IF ~Broadcasts(Len(yt), r) THEN Side(s, "ValueError", None, new_y_cursor, m, yt)
        ELSE IF s.x_cursor_ = 0 THEN
            IF full_update THEN Side(s1, "", Some(Zeros(new_y_cursor)), new_y_cursor, m, yt)
            ELSE IF m < 0 THEN Side(s1, "ValueError", None, new_y_cursor, m, yt)
            ELSE Side(s1, "", Some(Zeros(m)), new_y_cursor, m, yt)
        ELSE Side([s1 EXCEPT !.computations_ = @ + cx * cols], "",
                  Some(ColPotential(s1.p_, distance, cx, cols)), new_y_cursor, m, yt)

\* The new-by-new block left unfilled.
partial_fit_cross_skipped(s, a, b) == [s EXCEPT !.computations_ = @ + a.n * b.n]

\* Lines 156-158: the new-by-new block of the cache, when both sides are given.
partial_fit_cross(s, a, b) ==
    LET bx == Min(s.x_cursor_, max_size)
        by == Min(s.y_cursor_, max_size)
        rx == SliceLen(s.x_cursor_, a.cursor)
        ry == SliceLen(s.y_cursor_, b.cursor)
        new == compute_distance(a.batch, b.batch)
    IN  [s EXCEPT
           !.distance_ = [i \in Rows |-> [j \in Rows |->
                 IF i >= bx /\ i < bx + rx /\ j >= by /\ j < by + ry
                 THEN Pick(Pick(new, i - bx + 1), j - by + 1) ELSE @[i][j]]],
           !.computations_ = @ + a.n * b.n]

\* The blend without the - np.log(n) that normalises the new entries.
partial_fit_blend_unnormalised(pot, c, f, cursor, n, step_size, full_update) ==
    LET base == Min(c, max_size)
    IN  [i \in Rows |->
            IF i >= base /\ i < base + SliceLen(c, cursor)
            THEN Plus(step_size, Pick(f, i - base + 1))
            ELSE IF i < c THEN NegInf ELSE pot[i]]

\* Lines 159-175 (f, p_) and 176-192 (g, q_): blend the new potential into
\* the buffer pot, whose cursor is c, and return the buffer.
partial_fit_blend(pot, c, f, cursor, n, step_size, full_update) ==
    IF full_update
    THEN [i \in Rows |-> IF i < cursor THEN MinusLog(f, cursor)[i + 1] ELSE pot[i]]
    ELSE LET old == [i \in Rows |->
                       IF i >= c THEN pot[i]
                       ELSE IF step_size = StepOne THEN NegInf
                       ELSE Plus(pot[i], LogOneMinus(step_size))]
             fresh == MinusLog([k \in 1 .. Len(f) |-> Plus(step_size, f[k])], n)
             base == Min(c, max_size)
         IN  [i \in Rows |->
                 IF i >= base /\ i < base + SliceLen(c, cursor)
                 THEN Pick(fresh, i - base + 1) ELSE old[i]]

partial_fit(s, x, y, step_size, full_update) ==
    IF neither(x, y) THEN Result(s, "ValueError", None, None)
    ELSE
    LET a == partial_fit_x(s, x, full_update)
        b == partial_fit_y(a.st, y, full_update)
        s2 == IF x.some /\ y.some THEN partial_fit_cross(b.st, a, b) ELSE b.st
        s3 == IF ~a.f.some THEN s2
              ELSE [s2 EXCEPT
                      !.p_ = partial_fit_blend(@, s.x_cursor_, a.f.val, a.cursor, a.n,
                                               step_size, full_update),
                      !.x_cursor_ = a.cursor]
        s4 == IF ~b.f.some THEN s3
              ELSE [s3 EXCEPT
                      !.q_ = partial_fit_blend(@, s.y_cursor_, b.f.val, b.cursor, b.n,
                                               step_size, full_update),
                      !.y_cursor_ = b.cursor]
    IN  IF a.err # "" THEN Result(a.st, a.err, None, None)
        ELSE IF b.err # "" THEN Result(b.st, b.err, a.f, None)
        ELSE Result([s4 EXCEPT !.n_updates_ = @ + 1], "", a.f, b.f)

(* ------------------------------ random_fit ---------------------------- *)

\* buf[:n] = v for a batch v of n rows (n <= max_size).
Overwrite(buf, v) == [i \in Rows |-> IF i < Len(v) THEN v[i + 1] ELSE buf[i]]

\* Lines 72-80: the x side.  The cursor is set before the copy that may raise.
random_fit_x(s, x) ==
    IF ~x.some THEN Side(s, "", None, s.x_cursor_, 0, <<>>)
    ELSE
    LET n == Len(x.val)
        s1 == [s EXCEPT !.x_cursor_ = n]
        s2 == [s1 EXCEPT !.x_ = Overwrite(@, x.val)]
        cy == Min(s.y_cursor_, max_size)
        distance == compute_distance(x.val, Head_(s.y_, s.y_cursor_))
    IN  IF n > max_size THEN Side(s1, "ValueError", None, n, n, x.val)
        ELSE IF cy = 0 THEN Side(s2, "ValueError", None, n, n, x.val)
        ELSE Side(s2, "", Some(RowPotential(s2.q_, distance, cy)), n, n, x.val)

\* Lines 81-89: the y side, against x_[:x_cursor_] with the cursor just set.
random_fit_y(s, y) ==
    IF ~y.some THEN Side(s, "", None, s.y_cursor_, 0, <<>>)
    ELSE
    LET m == Len(y.val)
        s1 == [s EXCEPT !.y_cursor_ = m]
        s2 == [s1 EXCEPT !.y_ = Overwrite(@, y.val)]
        cx == Min(s.x_cursor_, max_size)
        distance == compute_distance(Head_(s.x_, s.x_cursor_), y.val)
    IN  IF m > max_size THEN Side(s1, "ValueError", None, m, m, y.val)
        ELSE IF cx = 0 THEN Side(s2, "ValueError", None, m, m, y.val)
        ELSE Side(s2, "", Some(ColPotential(s2.p_, distance, cx, m)), m, m, y.val)

\* Line 91: p_[:x_cursor_] = f - np.log(n).
random_fit_p(s, f, n) ==
    [s EXCEPT !.p_ = [i \in Rows |-> IF i < Len(f) THEN MinusLog(f, n)[i + 1] ELSE @[i]]]

\* Line 93: q_[:, x_cursor_] = g - np.log(m), one column, indexed by the x cursor.
random_fit_q(s, g, m) ==
    [s EXCEPT !.q_ = [@ EXCEPT ![s.x_cursor_] = MinusLog(g, m)[1]]]

random_fit(s, x, y) ==
    IF neither(x, y) THEN Result(s, "ValueError", None, None)
    ELSE
    LET a == random_fit_x(s, x)
        b == random_fit_y(a.st, y)
        s3 == IF a.f.some THEN random_fit_p(b.st, a.f.val, a.n) ELSE b.st
    IN  IF a.err # "" THEN Result(a.st, a.err, None, None)
        ELSE IF b.err # "" THEN Result(b.st, b.err, a.f, None)
        ELSE IF ~b.f.some THEN Result([s3 EXCEPT !.n_updates_ = @ + 1], "", a.f, b.f)
        ELSE IF s3.x_cursor_ >= max_size THEN Result(s3, "IndexError", a.f, b.f)
        ELSE IF Len(b.f.val) # 1 THEN Result(s3, "ValueError", a.f, b.f)
        ELSE Result([random_fit_q(s3, b.f.val, b.n) EXCEPT !.n_updates_ = @ + 1],
                    "", a.f, b.f)

(* -------------------------------- refit ------------------------------- *)

\* Lines 215-220: the blend of f into p_[:x_cursor_].
refit_p(s, f, step_size) ==
    LET new == MinusLog(f, s.x_cursor_)
    IN  [i \in Rows |->
           IF i >= s.x_cursor_ THEN s.p_[i]
           ELSE IF step_size = StepOne THEN new[i + 1]
           ELSE logaddexp(Plus(new[i + 1], step_size),
                          Plus(s.p_[i], LogOneMinus(step_size)))]

\* Lines 221-226: the blend of g into q_[:, :y_cursor_].  Its step_size != 1
\* branch takes g - np.log(x_cursor_) and q_[:x_cursor_], the whole row of
\* q_, so the sum has max_size columns.
refit_q(s, g, step_size) ==
    [j \in Rows |->
       IF j >= s.y_cursor_ THEN s.q_[j]
       ELSE IF step_size = StepOne THEN MinusLog(g, s.y_cursor_)[j + 1]
       ELSE logaddexp(Plus(MinusLog(g, s.x_cursor_)[j + 1], step_size),
                      Plus(s.q_[j], LogOneMinus(step_size)))]

refit(s, refit_f, refit_g, step_size) ==
    IF s.x_cursor_ = 0 \/ s.y_cursor_ = 0 THEN Result(s, "", None, None)
    ELSE
    LET cx == Min(s.x_cursor_, max_size)
        cy == Min(s.y_cursor_, max_size)
        D == Block(s.distance_, s.x_cursor_, s.y_cursor_)
        f == IF refit_f THEN Some(RowPotential(s.q_, D, cy)) ELSE None
        g == IF refit_g THEN Some(ColPotential(s.p_, D, cx, cy)) ELSE None
        work == (IF refit_f THEN 1 ELSE 0) + (IF refit_g THEN 1 ELSE 0)
        s1 == [s EXCEPT !.computations_ = @ + work * s.x_cursor_ * s.y_cursor_]
        s2 == IF refit_f THEN [s1 EXCEPT !.p_ = refit_p(s, f.val, step_size)] ELSE s1
        s3 == IF refit_g THEN [s2 EXCEPT !.q_ = refit_q(s, g.val, step_size)] ELSE s2
    IN  IF refit_g /\ step_size # StepOne /\ cy # max_size
        THEN Result(s2, "ValueError", f, g)
        ELSE Result([s3 EXCEPT !.n_updates_ = @ + 1], "", f, g)

(* ------------------------------ compute_ot ---------------------------- *)

\* compute_ot reads the engine and returns a number no other method uses;
\* what matters here is whether it returns.  Both of its first two
\* reductions raise when their axis is empty.
compute_ot(s) ==
    Result(s, IF s.x_cursor_ = 0 \/ s.y_cursor_ = 0 THEN "ValueError" ELSE "", None, None)

(* -------------------------------- reset ------------------------------- *)

\* The potentials at the new points taken after the buffers were overwritten.
reset_potentials_late(s, x, y) ==
    evaluate_potential([s EXCEPT !.x_cursor_ = Len(x), !.y_cursor_ = Len(y),
                                 !.x_ = [i \in Rows |-> IF i < Len(x) THEN x[i + 1] ELSE @[i]],
                                 !.y_ = [j \in Rows |-> IF j < Len(y) THEN y[j + 1] ELSE @[j]]],
                       Some(x), Some(y))

\* Line 275: the potentials at the new points, from the engine as reset finds it.
reset_potentials(s, x, y) == evaluate_potential(s, Some(x), Some(y))

reset(s, x, y) ==
    LET e == reset_potentials(s, x, y)
        n == Len(x)
        m == Len(y)
        distance == compute_distance(x, y)
        s1 == [s EXCEPT
                 !.computations_ = @ + s.x_cursor_ * m + s.y_cursor_ * n + n * m,
                 !.x_cursor_ = n,
                 !.y_cursor_ = m]
        s2 == [s1 EXCEPT !.x_ = Overwrite(@, x)]
        s3 == [s2 EXCEPT
                 !.y_ = Overwrite(@, y),
                 !.distance_ = [i \in Rows |-> [j \in Rows |->
                       IF i < n /\ j < m THEN distance[i + 1][j + 1] ELSE @[i][j]]],
                 !.q_ = [j \in Rows |-> IF j < m THEN MinusLog(e.g.val, m)[j + 1] ELSE @[j]],
                 !.p_ = [i \in Rows |-> IF i < n THEN MinusLog(e.f.val, n)[i + 1] ELSE @[i]],
                 !.n_updates_ = 0]
    IN  IF n > max_size THEN Result(s1, "ValueError", e.f, e.g)
        ELSE IF m > max_size THEN Result(s2, "ValueError", e.f, e.g)
        ELSE Result(s3, "", e.f, e.g)

(* ------------------------- what a call reads -------------------------- *)

\* The entries of p_ or q_ that a slice [:c] selects.
Selected(c) == {i \in Rows : i < c}

\* The entries of p_ (p) and of q_ (q) that a call reads.
Reads(p, q) == [p |-> p, q |-> q]

\* partial_fit: q_[:, :y_cursor_] at line 119 and in place at line 183,
\* p_[:x_cursor_] at line 147 and in place at line 166, the cursors being
\* those of the entry until lines 175 and 192.
partial_fit_reads(s, x, y, step_size, full_update) ==
    LET a == partial_fit_x(s, x, full_update)
        b == partial_fit_y(a.st, y, full_update)
        blends == a.err = "" /\ b.err = "" /\ ~full_update /\ step_size # StepOne
    IN  Reads((IF a.err = "" /\ b.f.some /\ s.x_cursor_ # 0
               THEN Selected(s.x_cursor_) ELSE {})
                  \cup (IF blends /\ a.f.some THEN Selected(s.x_cursor_) ELSE {}),
              (IF a.f.some /\ s.y_cursor_ # 0 THEN Selected(s.y_cursor_) ELSE {})
                  \cup (IF blends /\ b.f.some THEN Selected(s.y_cursor_) ELSE {}))

\* random_fit: q_[:, :y_cursor_] at line 77, and p_[:x_cursor_] at line 86
\* with the x_cursor_ that line 74 has set.
random_fit_reads(s, x, y) ==
    LET a == random_fit_x(s, x)
    IN  Reads(IF a.err = "" /\ y.some /\ Len(y.val) <= max_size
              THEN Selected(a.st.x_cursor_) ELSE {},
              IF x.some /\ Len(x.val) <= max_size
              THEN Selected(s.y_cursor_) ELSE {})

\* refit: q_[:, :y_cursor_] at line 200, p_[:x_cursor_] at lines 208 and
\* 220, and at line 226 q_[:x_cursor_], the whole row of q_.
refit_reads(s, refit_f, refit_g, step_size) ==
    IF s.x_cursor_ = 0 \/ s.y_cursor_ = 0 THEN Reads({}, {})
    ELSE Reads(IF refit_g \/ (refit_f /\ step_size # StepOne)
               THEN Selected(s.x_cursor_) ELSE {},
               (IF refit_f THEN Selected(s.y_cursor_) ELSE {})
                  \cup (IF refit_g /\ step_size # StepOne THEN Rows ELSE {}))

\* evaluate_potential: q[:, :y_cursor_] at line 254, p[:x_cursor_] at line 262.
evaluate_potential_reads(s, x, y) ==
    Reads(IF y.some /\ s.x_cursor_ # 0 THEN Selected(s.x_cursor_) ELSE {},
          IF x.some /\ s.y_cursor_ # 0 THEN Selected(s.y_cursor_) ELSE {})

\* compute_ot: q[:, :y_cursor_] at line 238, then p[:x_cursor_] at line 239.
compute_ot_reads(s) ==
    Reads(IF s.y_cursor_ # 0 THEN Selected(s.x_cursor_) ELSE {}, Selected(s.y_cursor_))

\* What the call c reads of the engine s it is made on.  reset reads
\* through evaluate_potential (line 275).
reads(s, c) ==
    CASE c.op = "partial_fit" ->
             partial_fit_reads(s, c.x, c.y, c.step_size, c.full_update)
      [] c.op = "random_fit" -> random_fit_reads(s, c.x, c.y)
      [] c.op = "refit" -> refit_reads(s, c.refit_f, c.refit_g, c.step_size)
      [] c.op \in {"evaluate_potential", "reset"} -> evaluate_potential_reads(s, c.x, c.y)
      [] c.op = "compute_ot" -> compute_ot_reads(s)
      [] OTHER -> Reads({}, {})

(* ------------------------------ the calls ----------------------------- *)

\* The last call made: the method, its arguments, the exception it raised
\* ("" when it returned) and the potentials it computed or returned.
Call(op, x, y, step_size, full_update, refit_f, refit_g, r) ==
    [op |-> op, x |-> x, y |-> y, step_size |-> step_size,
     full_update |-> full_update, refit_f |-> refit_f, refit_g |-> refit_g,
     err |-> r.err, f |-> r.f, g |-> r.g]

NoCall ==
    [op |-> "__init__", x |-> None, y |-> None, step_size |-> StepOne,
     full_update |-> FALSE, refit_f |-> FALSE, refit_g |-> FALSE,
     err |-> "", f |-> None, g |-> None]

\* The engine becomes s.
Becomes(s) ==
    /\ x_' = s.x_
    /\ y_' = s.y_
    /\ p_' = s.p_
    /\ q_' = s.q_
    /\ distance_' = s.distance_
    /\ x_cursor_' = s.x_cursor_
    /\ y_cursor_' = s.y_cursor_
    /\ computations_' = s.computations_
    /\ n_updates_' = s.n_updates_

\* Every row below a cursor has been written, so a call reads no row that
\* np.empty left as it found it.
Readable ==
    /\ \A i \in Rows : i < x_cursor_ => x_[i] # Uninit
    /\ \A j \in Rows : j < y_cursor_ => y_[j] # Uninit

\* A caller is free to make a call: no driver loop has been started, and
\* fewer than loop.budget calls were made.
Idle == loop.pc = "idle" /\ calls < loop.budget /\ Readable

\* partial_fit reads step_size only when full_update is off.
Modes == {<<st, fu>> \in StepSizes \X BOOLEAN : fu => st = StepOne}

\* No driver loop: the caller makes up to budget calls of its own.
NoLoop(budget) ==
    [pc |-> "idle", budget |-> budget, kind |-> "none", max_updates |-> 0,
     batch_size |-> 0, step_size |-> StepOne, full_update |-> FALSE,
     entry |-> <<0, 0, 0>>, iterations |-> 0]

\* The update methods count towards completed when they return.
Completed(r) == IF r.err = "" THEN completed + 1 ELSE completed

Fresh ==
    /\ x_ = __init__.x_
    /\ y_ = __init__.y_
    /\ p_ = __init__.p_
    /\ q_ = __init__.q_
    /\ distance_ = __init__.distance_
    /\ x_cursor_ = __init__.x_cursor_
    /\ y_cursor_ = __init__.y_cursor_
    /\ computations_ = __init__.computations_
    /\ n_updates_ = __init__.n_updates_
    /\ last = NoCall
    /\ calls = 0
    /\ completed = 0

Init == Fresh /\ loop = NoLoop(MaxCalls)

\* The rows below a cursor that were never written hold whatever the memory
\* np.empty handed out holds: any points, the same at every later read.
Reveal ==
    /\ ~Readable
    /\ loop.pc = "running" \/ (loop.pc = "idle" /\ calls < loop.budget)
    /\ \E bx \in [Rows -> Points], by \in [Rows -> Points] :
          /\ x_' = [i \in Rows |-> IF i < x_cursor_ /\ x_[i] = Uninit THEN bx[i] ELSE x_[i]]
          /\ y_' = [j \in Rows |-> IF j < y_cursor_ /\ y_[j] = Uninit THEN by[j] ELSE y_[j]]
    /\ UNCHANGED <<p_, q_, distance_, x_cursor_, y_cursor_, computations_,
                   n_updates_, last, calls, completed, loop>>

PartialFit ==
    /\ Idle
    /\ \E x \in Batches, y \in Batches, mode \in Modes :
          \E r \in {partial_fit(self, x, y, mode[1], mode[2])} :
              /\ Becomes(r.st)
              /\ last' = Call("partial_fit", x, y, mode[1], mode[2], FALSE, FALSE, r)
              /\ completed' = Completed(r)
    /\ calls' = calls + 1
    /\ UNCHANGED loop

RandomFit ==
    /\ Idle
    /\ \E x \in Batches, y \in Batches :
          \E r \in {random_fit(self, x, y)} :
              /\ Becomes(r.st)
              /\ last' = Call("random_fit", x, y, StepOne, FALSE, FALSE, FALSE, r)
              /\ completed' = Completed(r)
    /\ calls' = calls + 1
    /\ UNCHANGED loop

Refit ==
    /\ Idle
    /\ \E refit_f \in BOOLEAN, refit_g \in BOOLEAN, step_size \in StepSizes :
          \E r \in {refit(self, refit_f, refit_g, step_size)} :
              /\ Becomes(r.st)
              /\ last' = Call("refit", None, None, step_size, FALSE, refit_f, refit_g, r)
              /\ completed' = Completed(r)
    /\ calls' = calls + 1
    /\ UNCHANGED loop

Reset ==
    /\ Idle
    /\ \E x \in Arrays, y \in Arrays :
          \E r \in {reset(self, x, y)} :
              /\ Becomes(r.st)
              /\ last' = Call("reset", Some(x), Some(y), StepOne, FALSE, FALSE, FALSE, r)
              /\ completed' = IF r.err = "" THEN 0 ELSE completed
    /\ calls' = calls + 1
    /\ UNCHANGED loop

EvaluatePotential ==
    /\ Idle
    /\ \E x \in Batches, y \in Batches :
          \E r \in {evaluate_potential(self, x, y)} :
              /\ Becomes(r.st)
              /\ last' = Call("evaluate_potential", x, y, StepOne, FALSE, FALSE, FALSE, r)
    /\ calls' = calls + 1
    /\ UNCHANGED <<completed, loop>>

\* The caller repeats the evaluate_potential call it has just made.
EvaluateAgain ==
    /\ loop.pc = "idle" /\ calls <= loop.budget /\ Readable
    /\ last.op = "evaluate_potential"
    /\ \E r \in {evaluate_potential(self, last.x, last.y)} :
          /\ Becomes(r.st)
          /\ last' = Call("evaluate_potential", last.x, last.y, StepOne, FALSE, FALSE, FALSE, r)
    /\ calls' = calls + 1
    /\ UNCHANGED <<completed, loop>>

ComputeOT ==
    /\ Idle
    /\ \E r \in {compute_ot(self)} :
           /\ Becomes(r.st)
           /\ last' = Call("compute_ot", None, None, StepOne, FALSE, FALSE, FALSE, r)
    /\ calls' = calls + 1
    /\ UNCHANGED <<completed, loop>>

Next ==
    \/ PartialFit
    \/ RandomFit
    \/ Refit
    \/ Reset
    \/ EvaluatePotential
    \/ EvaluateAgain
    \/ ComputeOT
    \/ Reveal

Spec == Init /\ [][Next]_vars


(* --------------------------- the driver loops ------------------------- *)

\* The loops run with the constructor's defaults step_size_exp = 0,
\* batch_size_exp = 0 and callback = None: the step size and the batch size
\* are constant and _callback does nothing.  loop.entry holds x_cursor_,
\* y_cursor_ and n_updates_ as the loop found them.
Running(kind, max_updates, batch_size, step_size, full_update) ==
    [pc |-> "running", budget |-> loop.budget, kind |-> kind,
     max_updates |-> max_updates, batch_size |-> batch_size,
     step_size |-> step_size, full_update |-> full_update,
     entry |-> <<x_cursor_, y_cursor_, n_updates_>>, iterations |-> 0]

\* A sampler returns exactly batch_size points.
Sample(batch_size) == [1 .. batch_size -> Points]

\* An iteration of an online loop that absorbs nothing leaves the loop as it
\* was; the model stops following it after MaxIterations.
MaxIterations == max_size + 1

Start(l) ==
    /\ loop.pc = "idle"
    /\ loop' = l
    /\ last' = [NoCall EXCEPT !.op = l.kind]
    /\ UNCHANGED <<x_, y_, p_, q_, distance_, x_cursor_, y_cursor_, computations_,
                   n_updates_, calls, completed>>

StartOnline ==
    \E batch_size \in 1 .. max_size, mode \in Modes :
        Start(Running("online_sinkhorn_loop", 0, batch_size, mode[1], mode[2]))

StartRandom ==
    \E batch_size \in 1 .. max_size, max_updates \in (-1) .. MaxUpdates :
        Start(Running("random_sinkhorn_loop", max_updates, batch_size, StepOne, FALSE))

StartSinkhorn ==
    \E step_size \in StepSizes, max_updates \in (-1) .. MaxUpdates :
        Start(Running("sinkhorn_loop", max_updates, 0, step_size, FALSE))

InLoop(kind) == loop.pc = "running" /\ loop.kind = kind

\* Line 293: while not self.is_full.
OnlineContinues ==
    InLoop("online_sinkhorn_loop") /\ ~is_full(self) /\ loop.iterations < MaxIterations

\* Line 316: while self.n_updates_ < max_updates.
RandomContinues == InLoop("random_sinkhorn_loop") /\ n_updates_ < loop.max_updates

\* Line 331: while self.n_updates_ < max_updates.
SinkhornContinues == InLoop("sinkhorn_loop") /\ n_updates_ < loop.max_updates

\* The iteration ends: the loop goes on, or the exception leaves it.
Iterated(r) ==
    loop' = [loop EXCEPT !.pc = IF r.err = "" THEN "running" ELSE "raised",
                         !.iterations = @ + 1]

Return(kind) ==
    /\ InLoop(kind)
    /\ loop' = [loop EXCEPT !.pc = "returned"]
    /\ UNCHANGED <<x_, y_, p_, q_, distance_, x_cursor_, y_cursor_, computations_,
                   n_updates_, last, calls, completed>>

\* Lines 293-312.
OnlineStep ==
    /\ OnlineContinues /\ Readable
    /\ \E x \in Sample(loop.batch_size), y \in Sample(loop.batch_size) :
          \E r \in {partial_fit(self, Some(x), Some(y), loop.step_size, loop.full_update)} :
              /\ Becomes(r.st)
              /\ last' = Call("partial_fit", Some(x), Some(y), loop.step_size,
                              loop.full_update, FALSE, FALSE, r)
              /\ completed' = Completed(r)
              /\ Iterated(r)
    /\ calls' = calls + 1

\* Lines 293 and 313.
OnlineReturn == is_full(self) /\ Return("online_sinkhorn_loop")

\* Lines 316-327.
RandomStep ==
    /\ RandomContinues /\ Readable
    /\ \E x \in Sample(loop.batch_size), y \in Sample(loop.batch_size) :
          \E r \in {random_fit(self, Some(x), Some(y))} :
              /\ Becomes(r.st)
              /\ last' = Call("random_fit", Some(x), Some(y), StepOne, FALSE, FALSE, FALSE, r)
              /\ completed' = Completed(r)
              /\ Iterated(r)
    /\ calls' = calls + 1

\* Lines 316 and 328.
RandomReturn == ~RandomContinues /\ Return("random_sinkhorn_loop")

\* Lines 331-338: refit, then compute_ot on what refit left.
SinkhornStep ==
    /\ SinkhornContinues /\ Readable
    /\ \E r \in {refit(self, TRUE, TRUE, loop.step_size)} :
          \E w \in {IF r.err = "" THEN compute_ot(r.st) ELSE r} :
              /\ Becomes(r.st)
              /\ last' = IF r.err = "" /\ w.err # ""
                         THEN Call("compute_ot", None, None, StepOne, FALSE, FALSE, FALSE, w)
                         ELSE Call("refit", None, None, loop.step_size, FALSE, TRUE, TRUE, r)
              /\ completed' = Completed(r)
              /\ Iterated(w)
    /\ calls' = calls + 1

\* Lines 331 and 339.
SinkhornReturn == ~SinkhornContinues /\ Return("sinkhorn_loop")

\* The loop's condition holds and its body makes its call: the steps of
\* OnlineStep, RandomStep and SinkhornStep, whatever the call returns.
Body ==
    /\ OnlineContinues \/ RandomContinues \/ SinkhornContinues
    /\ Readable
    /\ calls' = calls + 1

\* The loop's condition fails and the loop returns.
Returns == OnlineReturn \/ RandomReturn \/ SinkhornReturn

\* The rows the loop's next call reads hold what they hold.
Revealed == loop.pc = "running" /\ Reveal

LoopInit == Fresh /\ loop = NoLoop(MaxSetup)

LoopNext ==
    \/ PartialFit
    \/ RandomFit
    \/ Refit
    \/ Reset
    \/ Reveal
    \/ StartOnline
    \/ StartRandom
    \/ StartSinkhorn
    \/ OnlineStep
    \/ OnlineReturn
    \/ RandomStep
    \/ RandomReturn
    \/ SinkhornStep
    \/ SinkhornReturn

\* A driver loop started after up to MaxSetup update calls.  The engine is
\* single-threaded and a loop runs until it returns or raises, so a loop
\* that can run its body runs it and a loop that can return returns.
LoopSpec ==
    LoopInit /\ [][LoopNext]_vars /\ WF_calls(Body) /\ WF_vars(Returns) /\ WF_vars(Revealed)

\* The engine under partial_fit calls alone.
PartialFitSpec == Init /\ [][PartialFit]_vars

(* ------------------------------ the claims ---------------------------- *)

\* A call has just been made (Reveal makes none).
Called == calls' = calls + 1

\* The Distance Oracle on one pair of points.
distance(a, b) == compute_distance(<<a>>, <<b>>)[1][1]

\* C1: after any sequence of partial_fit calls on a fresh engine, every
\* Distance Cache entry below both cursors is the Distance Oracle's value
\* for the two buffer rows.
C1_CacheConsistent ==
    \A i \in Rows, j \in Rows :
        (i < x_cursor_ /\ j < y_cursor_) => distance_[i][j] = distance(x_[i], y_[j])

\* Two partial_fit calls of one point per side filled both buffers, and the
\* old-by-new blocks hold non-zero distances.
C1_Witness ==
    /\ calls = 2 /\ n_updates_ = 2 /\ last.op = "partial_fit"
    /\ last.x.some /\ last.y.some /\ Len(last.x.val) = 1 /\ Len(last.y.val) = 1
    /\ x_cursor_ = 2 /\ y_cursor_ = 2
    /\ distance_[0][1] = 1 /\ distance_[1][0] = 1

\* What partial_fit does to one side: no cursor moves for a side not given;
\* a side given n points ends at min(c + n, max_size), holding the first
\* points of the batch in the rows it gained and its old rows untouched.
Absorbed(c, c2, buf, buf2, batch) ==
    /\ c2 = (IF batch.some THEN Min(c + Len(batch.val), max_size) ELSE c)
    /\ c <= c2 /\ c2 <= max_size
    /\ \A i \in Rows :
          buf2[i] = (IF batch.some /\ i >= c /\ i < c2 THEN batch.val[i - c + 1] ELSE buf[i])

\* C2: a partial_fit call that gives a side n points raises nothing and
\* leaves the side's cursor at min(c + n, max_size), absorbing the first
\* max_size - c points when the batch is too long; cursors never decrease
\* and never exceed max_size.
C2_Truncation ==
    [][Called =>
        /\ (last'.x.some \/ last'.y.some) => last'.err = ""
        /\ Absorbed(x_cursor_, x_cursor_', x_, x_', last'.x)
        /\ Absorbed(y_cursor_, y_cursor_', y_, y_', last'.y)]_vars

\* A second partial_fit call gave x a batch longer than the buffer, which
\* was cut to fill it.
C2_Witness ==
    /\ calls = 2 /\ n_updates_ = 2 /\ last.op = "partial_fit" /\ last.err = ""
    /\ last.x.some /\ Len(last.x.val) = MaxBatch
    /\ x_cursor_ = max_size /\ y_cursor_ = 1

\* C3: in every state the calls can reach, the states left by a raising call
\* included, both cursors lie in 0 .. max_size.
C3_CursorsInRange ==
    /\ x_cursor_ \in 0 .. max_size
    /\ y_cursor_ \in 0 .. max_size

\* C4: n_updates_ is the number of update calls (partial_fit, random_fit,
\* refit) that returned since the construction or the last reset.
C4_CountsCompletedUpdates == n_updates_ = completed

\* C7: on an empty store, partial_fit(x, y, step_size=1, full_update=False)
\* with batches that fit leaves the cursors, the buffers, the Distance Cache
\* and the potentials of the new points as reset(x, y) leaves them.
C7_EmptyStoreAsReset ==
    [][(/\ Called /\ last'.op = "partial_fit"
        /\ x_cursor_ = 0 /\ y_cursor_ = 0
        /\ last'.x.some /\ last'.y.some
        /\ last'.step_size = StepOne /\ ~last'.full_update
        /\ Len(last'.x.val) <= max_size /\ Len(last'.y.val) <= max_size)
       => LET r == reset(self, last'.x.val, last'.y.val).st
          IN  /\ x_cursor_' = r.x_cursor_ /\ y_cursor_' = r.y_cursor_
              /\ x_' = r.x_ /\ y_' = r.y_
              /\ distance_' = r.distance_
              /\ \A i \in Rows : i < Len(last'.x.val) => p_'[i] = r.p_[i]
              /\ \A j \in Rows : j < Len(last'.y.val) => q_'[j] = r.q_[j]]_vars

\* The first call on a fresh engine was such a partial_fit, of two points
\* and one point.
C7_Witness ==
    /\ calls = 1 /\ last.op = "partial_fit" /\ last.err = ""
    /\ last.step_size = StepOne /\ ~last.full_update
    /\ last.x.some /\ last.y.some /\ Len(last.x.val) = 2 /\ Len(last.y.val) = 1
    /\ x_cursor_ = 2 /\ y_cursor_ = 1
    /\ p_[0] = <<1, 2>> /\ q_[0] = Zero /\ distance_[1][0] = 1

\* C8: reset(x, y) with batches that fit evaluates the potentials at x and y
\* on the engine as it finds it, then overwrites: the cursors are |x| and
\* |y|, n_updates_ is 0, the buffers and the Distance Cache hold x, y and
\* their distances, and P[i] = f_i - log|x|, Q[j] = g_j - log|y|.
C8_ResetFromOldPotentials ==
    [][(/\ Called /\ last'.op = "reset"
        /\ Len(last'.x.val) <= max_size /\ Len(last'.y.val) <= max_size)
       => LET x == last'.x.val
              y == last'.y.val
              f == evaluate_f(self, Some(x)).val
              g == evaluate_g(self, Some(y)).val
          IN  /\ last'.err = ""
              /\ x_cursor_' = Len(x) /\ y_cursor_' = Len(y) /\ n_updates_' = 0
              /\ \A i \in Rows : i < Len(x) =>
                    /\ x_'[i] = x[i + 1]
                    /\ p_'[i] = Plus(f[i + 1], Neg(Log(Len(x))))
              /\ \A j \in Rows : j < Len(y) =>
                    /\ y_'[j] = y[j + 1]
                    /\ q_'[j] = Plus(g[j + 1], Neg(Log(Len(y))))
              /\ \A i \in Rows, j \in Rows : (i < Len(x) /\ j < Len(y)) =>
                    distance_'[i][j] = distance(x[i + 1], y[j + 1])]_vars

\* A reset of two points per side followed an update, so that the
\* potentials it wrote come from the old ones and not from zeros.
C8_Witness ==
    /\ calls = 2 /\ last.op = "reset" /\ last.err = ""
    /\ Len(last.x.val) = 2 /\ Len(last.y.val) = 2
    /\ x_cursor_ = 2 /\ y_cursor_ = 2 /\ n_updates_ = 0
    /\ last.f.val[1] # Zero /\ last.g.val[1] # Zero
    /\ p_[0] # <<1, 2>> /\ p_[0] # p_[1]

\* C9: partial_fit, random_fit and evaluate_potential called with neither x
\* nor y raise at that call and leave the whole engine as it was.
C9_NeitherFailsFast ==
    [][(/\ Called
        /\ last'.op \in {"partial_fit", "random_fit", "evaluate_potential"}
        /\ ~last'.x.some /\ ~last'.y.some)
       => (last'.err = "ValueError" /\ self' = self)]_vars

\* A partial_fit with neither side was made on an engine that holds samples.
C9_Witness ==
    /\ calls = 2 /\ last.op = "partial_fit" /\ ~last.x.some /\ ~last.y.some
    /\ last.err = "ValueError"
    /\ x_cursor_ = 1 /\ y_cursor_ = 2 /\ n_updates_ = 1

\* C10: evaluate_potential changes nothing of the engine, returns zeros for
\* a side whose opposite cursor is 0, and returns the same again when the
\* call is repeated with the same arguments.
C10_EvaluateReadOnly ==
    [][(Called /\ last'.op = "evaluate_potential")
       => /\ self' = self
          /\ (last'.x.some /\ y_cursor_ = 0) => last'.f = Some(Zeros(Len(last'.x.val)))
          /\ (last'.y.some /\ x_cursor_ = 0) => last'.g = Some(Zeros(Len(last'.y.val)))
          /\ (last.op = "evaluate_potential" /\ last.x = last'.x /\ last.y = last'.y)
                => (last'.f = last.f /\ last'.g = last.g /\ last'.err = last.err)]_vars

\* evaluate_potential was called twice in a row after an update, and
\* returned potentials that are not zeros.
C10_Witness ==
    /\ calls = 3 /\ last.op = "evaluate_potential" /\ last.err = ""
    /\ x_cursor_ > 0 /\ y_cursor_ > 0
    /\ last.f.some /\ last.g.some /\ Len(last.f.val) = 2 /\ Len(last.g.val) = 1
    /\ last.f.val[1] # Zero /\ last.f.val[1] # last.f.val[2]

\* The loop is one of the two that stop at max_updates.
CapLoop == loop.kind \in {"random_sinkhorn_loop", "sinkhorn_loop"} /\ loop.pc # "idle"

\* C5: random_sinkhorn_loop and sinkhorn_loop, started in any state the
\* update methods reach, go on until they return, and return exactly when
\* n_updates_ has reached max_updates: after no iteration when it already
\* had on entry, and with n_updates_ = max_updates otherwise.
C5_CapLoopsReturnAtCap ==
    CapLoop =>
        /\ loop.pc # "raised"
        /\ loop.pc = "returned" =>
              IF loop.entry[3] >= loop.max_updates
              THEN loop.iterations = 0 /\ n_updates_ = loop.entry[3]
              ELSE n_updates_ = loop.max_updates

Online == loop.kind = "online_sinkhorn_loop"

EntryInRange == loop.entry[1] <= max_size /\ loop.entry[2] <= max_size

C11_NoReadBeyondCursor ==
    [][Called =>
         /\ reads(self, last').p \subseteq 0 .. (x_cursor_ - 1)
         /\ reads(self, last').q \subseteq 0 .. (y_cursor_ - 1)]_vars

\* C12: random_fit with batches of n and m points (n, m <= max_size)
\* returns, and replaces each side it is given from position 0: the cursor
\* becomes n (m), x_[0..n) = x (y_[0..m) = y), the new potentials minus
\* log n (log m) are in p_[0..n) (q_[0..m)), and no other entry of p_ or q_
\* changes.
C12_RandomFitReplaces ==
    [][(/\ Called /\ last'.op = "random_fit" /\ ~neither(last'.x, last'.y)
        /\ Len(last'.x.val) <= max_size /\ Len(last'.y.val) <= max_size)
       => LET x == last'.x
              y == last'.y
              n == Len(x.val)
              m == Len(y.val)
          IN  /\ last'.err = ""
              /\ x.some => /\ x_cursor_' = n
                           /\ \A i \in Rows : i < n =>
                                 /\ x_'[i] = x.val[i + 1]
                                 /\ p_'[i] = Plus(last'.f.val[i + 1], Neg(Log(n)))
              /\ y.some => /\ y_cursor_' = m
                           /\ \A j \in Rows : j < m =>
                                 /\ y_'[j] = y.val[j + 1]
                                 /\ q_'[j] = Plus(last'.g.val[j + 1], Neg(Log(m)))
              /\ \A i \in Rows : (~x.some \/ i >= n) => p_'[i] = p_[i]
              /\ \A j \in Rows : (~y.some \/ j >= m) => q_'[j] = q_[j]]_vars

====
